---------------------------- MODULE Spec2Model ----------------------------
(***************************************************************************)
(* Meeting-processing pipeline of MOA: the retry wrapper                   *)
(* (ai_pipeline/pipeline/retry.py), the error taxonomy (errors.py), the    *)
(* workflow state (state.py) and the LangGraph graph with its entry points *)
(* process_meeting / resume_after_review (graph.py).                       *)
(***************************************************************************)
EXTENDS Integers, Sequences, FiniteSets, TLC

None == "None"

Min(a, b) == IF a < b THEN a ELSE b

(***************************************************************************)
(* Bounds of the model.                                                    *)
(***************************************************************************)
\* largest max_retries a drawn RetryConfig carries
MaxRetriesBound == 3
\* largest number of consecutive failures of the wrapped function
MaxFailures == 5
\* invocations of process_meeting / resume_after_review explored when two
\* callers act concurrently
MaxCalls == 2
\* Largest retry_count in the states handed to the routing functions on
\* their own.
MaxRetryCount == 6
\* Largest attempt number handed to calculate_delay on its own.
MaxAttempt == 8
\* Coroutines calling get_checkpointer concurrently in one process.
MaxGetters == 3

(***************************************************************************)
(* errors.py                                                               *)
(***************************************************************************)
Severities == {"warning", "error", "critical"}

\* PipelineError and its subclasses, reduced to what retry.py reads.
PipelineError(cls, recoverable, severity, retry_delay) ==
    [cls |-> cls, pipeline |-> TRUE, recoverable |-> recoverable,
     severity |-> severity, retry_delay |-> retry_delay]

\* An exception that is not a PipelineError (no recoverable/severity attributes).
PlainException ==
    [cls |-> "Exception", pipeline |-> FALSE, recoverable |-> FALSE,
     severity |-> "error", retry_delay |-> 0]

STTError == PipelineError("STTError", TRUE, "error", 0)
STTNetworkError == PipelineError("STTNetworkError", TRUE, "error", 5)
STTTimeoutError == PipelineError("STTTimeoutError", TRUE, "error", 10)
STTAudioError == PipelineError("STTAudioError", FALSE, "critical", 0)
LLMRateLimitError == PipelineError("LLMRateLimitError", TRUE, "error", 60)
LLMResponseError == PipelineError("LLMResponseError", TRUE, "error", 0)
SummarizerError == PipelineError("SummarizerError", TRUE, "error", 0)
ActionExtractorError == PipelineError("ActionExtractorError", TRUE, "error", 0)
CritiqueError == PipelineError("CritiqueError", TRUE, "error", 0)
MaxRetriesExceededError == PipelineError("MaxRetriesExceededError", FALSE, "critical", 0)

(***************************************************************************)
(* retry.py                                                                *)
(***************************************************************************)
\* RetryConfig with the defaults of __init__: delays in seconds, retry_on
\* (PipelineError,).
RetryConfig(max_retries) ==
    [max_retries |-> max_retries, initial_delay |-> 1, max_delay |-> 60,
     exponential_base |-> 2, jitter |-> TRUE]

RETRY_CONFIGS ==
    [stt |-> [RetryConfig(3) EXCEPT !.initial_delay = 5, !.max_delay = 120],
     llm |-> [RetryConfig(3) EXCEPT !.initial_delay = 2, !.max_delay = 60],
     mcp |-> [RetryConfig(2) EXCEPT !.initial_delay = 1, !.max_delay = 30],
     default |-> [RetryConfig(3) EXCEPT !.initial_delay = 1, !.max_delay = 60]]

\* base ** n
RECURSIVE Pow(_, _)
Pow(base, n) == IF n = 0 THEN 1 ELSE base * Pow(base, n - 1)

\* calculate_delay without an error argument.
NoError ==
    [cls |-> "None", pipeline |-> FALSE, recoverable |-> FALSE,
     severity |-> "error", retry_delay |-> 0]

calculate_delay_hint_uncapped(attempt, config, error, u) ==
    LET delay == IF error.pipeline /\ error.retry_delay > 0
                 THEN error.retry_delay * 1000
                 ELSE Min(config.initial_delay * Pow(config.exponential_base, attempt) * 1000,
                          config.max_delay * 1000)
    IN IF config.jitter THEN delay + (delay * u) \div 100 ELSE delay

calculate_delay_uncapped(attempt, config, error, u) ==
    LET delay == IF error.pipeline /\ error.retry_delay > 0
                 THEN error.retry_delay * 1000
                 ELSE config.initial_delay * Pow(config.exponential_base, attempt) * 1000
    IN IF config.jitter THEN delay + (delay * u) \div 100 ELSE delay

\* calculate_delay, in milliseconds (config and error give seconds); u is
\* the percentage random.uniform(0, 0.5) draws for the jitter.
calculate_delay(attempt, config, error, u) ==
    LET base_delay == IF error.pipeline /\ error.retry_delay > 0
                      THEN error.retry_delay * 1000
                      ELSE config.initial_delay * Pow(config.exponential_base, attempt) * 1000
        delay == Min(base_delay, config.max_delay * 1000)
    IN IF config.jitter THEN delay + (delay * u) \div 100 ELSE delay

should_retry_ignores_severity(error, config, attempt) ==
    IF attempt >= config.max_retries THEN FALSE
    ELSE IF ~error.pipeline THEN FALSE
    ELSE IF ~error.recoverable THEN FALSE
    ELSE TRUE

should_retry_early(error, config, attempt) ==
    IF attempt + 1 >= config.max_retries THEN FALSE
    ELSE IF ~error.pipeline THEN FALSE
    ELSE IF ~error.recoverable THEN FALSE
    ELSE IF error.severity = "critical" THEN FALSE
    ELSE TRUE

should_retry(error, config, attempt) ==
    IF attempt >= config.max_retries THEN FALSE
    ELSE IF ~error.pipeline THEN FALSE
    ELSE IF ~error.recoverable THEN FALSE
    ELSE IF error.severity = "critical" THEN FALSE
    ELSE TRUE

\* An outcome of one call of the wrapped function: "ok" or an error record.
Ok == [cls |-> "ok", pipeline |-> FALSE, recoverable |-> FALSE,
       severity |-> "error", retry_delay |-> 0]

\* The function fails with err on its first n calls and succeeds afterwards.
FailsThenOk(n, err) == [k \in 1..(MaxRetriesBound + MaxFailures + 3) |-> IF k <= n THEN err ELSE Ok]

\* retry_async: the for loop over range(max_retries + 1), then the raise after it.
\* outs[k] is the outcome of the k-th call of func.  The result names what the
\* caller sees: "ok", or the exception class raised, with the number of calls.
RECURSIVE retry_loop(_, _, _)
retry_loop(config, outs, attempt) ==
    IF attempt >= config.max_retries + 1
    THEN [calls |-> attempt, raised |-> MaxRetriesExceededError.cls, ok |-> FALSE]
    ELSE LET e == outs[attempt + 1] IN
         IF e = Ok
         THEN [calls |-> attempt + 1, raised |-> None, ok |-> TRUE]
         ELSE IF ~should_retry(e, config, attempt)
              THEN [calls |-> attempt + 1, raised |-> e.cls, ok |-> FALSE]
              ELSE retry_loop(config, outs, attempt + 1)

retry_async(config, outs) == retry_loop(config, outs, 0)

\* RetryContext.handle_error on a context whose counter is ctx_attempt:
\* the new counter and what the call raises (None: it slept and returned).
handle_error(config, ctx_attempt, error) ==
    LET attempt == ctx_attempt + 1 IN
    IF ~should_retry(error, config, attempt - 1)
    THEN [attempt |-> attempt, raised |-> error.cls]
    ELSE IF attempt > config.max_retries
         THEN [attempt |-> attempt, raised |-> MaxRetriesExceededError.cls]
         ELSE [attempt |-> attempt, raised |-> None]

\* RetryContext.should_continue
should_continue(config, ctx_attempt) == ctx_attempt <= config.max_retries

\* The loop of the RetryContext docstring: while ctx.should_continue():
\* try the call, break on success, ctx.handle_error(e) on failure.
RECURSIVE retry_context_loop(_, _, _, _)
retry_context_loop(config, outs, ctx_attempt, calls) ==
    IF ~should_continue(config, ctx_attempt)
    THEN [calls |-> calls, raised |-> None, ok |-> FALSE]
    ELSE LET e == outs[calls + 1] IN
         IF e = Ok
         THEN [calls |-> calls + 1, raised |-> None, ok |-> TRUE]
         ELSE LET h == handle_error(config, ctx_attempt, e) IN
              IF h.raised # None
              THEN [calls |-> calls + 1, raised |-> h.raised, ok |-> FALSE]
              ELSE retry_context_loop(config, outs, h.attempt, calls + 1)

(***************************************************************************)
(* state.py                                                                *)
(***************************************************************************)
\* create_initial_state.  Text and list fields are abstracted to tokens ("" is
\* the empty string / empty list).  The inputs (meeting_id, audio_file_url,
\* meeting_title, meeting_date, use_claude_audio), the timestamps and the raw
\* STT output lists are left out: no node or router decides on them, except
\* use_claude_audio, which stt_node takes as a parameter here.
create_initial_state ==
    [raw_text |-> "",
     draft_summary |-> "",
     key_points |-> "",
     decisions |-> "",
     action_items |-> "",
     critique |-> "",
     critique_passed |-> FALSE,
     retry_count |-> 0,
     requires_human_review |-> TRUE,
     human_feedback |-> None,
     human_approved |-> FALSE,
     final_summary |-> None,
     final_key_points |-> None,
     final_decisions |-> None,
     final_action_items |-> None,
     status |-> "started",
     error_message |-> None,
     completed_at |-> None]

\* The status values MeetingAgentState declares.
StatusEnum ==
    {"started", "stt_complete", "summarized", "actions_extracted",
     "critique_complete", "pending_review", "completed", "failed"}

\* A thread without checkpoint has no channel values.
NoValues == [create_initial_state EXCEPT !.status = None, !.requires_human_review = FALSE]

\* LangGraph applies a node's return value (or the graph input) to the
\* channels: overwrite by key.
ApplyWrites(state, delta) ==
    [k \in DOMAIN state |-> IF k \in DOMAIN delta THEN delta[k] ELSE state[k]]

\* dict.get(key, default)
Get(d, key, default) == IF key \in DOMAIN d THEN d[key] ELSE default

(***************************************************************************)
(* graph.py: node functions.  Each takes the state and the outcome of the  *)
(* external calls it makes and returns the node's delta.  error_message is  *)
(* abstracted to a token naming the node whose call failed.                 *)
(***************************************************************************)
Failed(msg) == [status |-> "failed", error_message |-> msg]

\* A node that does not return a delta: the exception leaves the node.
Raise(cls) == [raise |-> cls]

\* An exception raised by an external call: its type, and whether its
\* message contains "rate".  json.JSONDecodeError is a subclass of ValueError.
RawException(type, mentions_rate) == [type |-> type, mentions_rate |-> mentions_rate]

\* stt_node.do_transcribe: the except clauses around transcribe_audio.
do_transcribe(e) ==
    IF e.type = "TimeoutError" THEN STTTimeoutError
    ELSE IF e.type = "ConnectionError" THEN STTNetworkError
    ELSE IF e.type \in {"ValueError", "JSONDecodeError"} THEN STTAudioError
    ELSE STTError

\* summarizer_node.do_summarize: the except clauses around generate_summary.
do_summarize(e) ==
    IF e.type = "JSONDecodeError" THEN LLMResponseError
    ELSE IF e.mentions_rate THEN LLMRateLimitError
    ELSE SummarizerError

\* _claude_audio_stt: one call, no retry; out is "ok" or an exception class.
claude_audio_stt(out) ==
    IF out = "ok"
    THEN [raw_text |-> "transcript", status |-> "stt_complete"]
    ELSE Failed("stt failed")

stt_node_lets_exception_escape(use_claude_audio, outs, post) ==
    IF use_claude_audio
    THEN claude_audio_stt(post)
    ELSE LET r == retry_async(RETRY_CONFIGS.stt, outs) IN
         IF ~r.ok THEN Failed("stt failed")
         ELSE IF post # "ok" THEN Raise(post)
         ELSE [raw_text |-> "transcript", status |-> "stt_complete"]

\* stt_node: outs are the outcomes of do_transcribe's calls under retry_async,
\* post is "ok" or the exception raised while formatting the result.
stt_node(use_claude_audio, outs, post) ==
    IF use_claude_audio
    THEN claude_audio_stt(post)
    ELSE LET r == retry_async(RETRY_CONFIGS.stt, outs) IN
         IF ~r.ok THEN Failed("stt failed")
         ELSE IF post # "ok" THEN Failed("stt failed")
         ELSE [raw_text |-> "transcript", status |-> "stt_complete"]

summarizer_node(state, outs) ==
    LET r == retry_async(RETRY_CONFIGS.llm, outs) IN
    IF ~r.ok THEN Failed("summarizer failed")
    ELSE [draft_summary |-> "draft", key_points |-> "points",
          decisions |-> "decisions", status |-> "summarized"]

action_extractor_node(state, outs) ==
    LET r == retry_async(RETRY_CONFIGS.llm, outs) IN
    IF ~r.ok THEN Failed("extract_actions failed")
    ELSE [action_items |-> "actions", status |-> "actions_extracted"]

critique_node_fails_job(state, outs, passed) ==
    LET r == retry_async(RETRY_CONFIGS.llm, outs) IN
    IF ~r.ok
    THEN Failed("critique failed")
    ELSE [critique |-> "critique", critique_passed |-> passed,
          retry_count |-> IF ~passed THEN state.retry_count + 1 ELSE state.retry_count,
          status |-> "critique_complete"]

critique_node(state, outs, passed) ==
    LET r == retry_async(RETRY_CONFIGS.llm, outs) IN
    IF ~r.ok
    THEN [critique |-> "skipped", critique_passed |-> TRUE, status |-> "critique_complete"]
    ELSE [critique |-> "critique", critique_passed |-> passed,
          retry_count |-> IF ~passed THEN state.retry_count + 1 ELSE state.retry_count,
          status |-> "critique_complete"]

\* human_review_node up to interrupt(): the payload handed to the reviewer.
review_data(state) ==
    [minutes |-> state.draft_summary, key_points |-> state.key_points,
     decisions |-> state.decisions, proposed_actions |-> state.action_items,
     critique |-> state.critique]

human_review_approves_unless_reject(state, user_decision) ==
    IF Get(user_decision, "action", None) # "reject"
    THEN [final_summary |-> Get(user_decision, "updated_summary", state.draft_summary),
          final_key_points |-> Get(user_decision, "updated_key_points", state.key_points),
          final_decisions |-> Get(user_decision, "updated_decisions", state.decisions),
          final_action_items |-> Get(user_decision, "updated_actions", state.action_items),
          human_approved |-> TRUE,
          human_feedback |-> Get(user_decision, "feedback", "Approved"),
          status |-> "approved"]
    ELSE [human_approved |-> FALSE,
          human_feedback |-> Get(user_decision, "feedback", "Rejected - needs revision"),
          status |-> "revision_requested",
          retry_count |-> state.retry_count + 1]

human_review_no_increment(state, user_decision) ==
    IF Get(user_decision, "action", None) = "approve"
    THEN [final_summary |-> Get(user_decision, "updated_summary", state.draft_summary),
          final_key_points |-> Get(user_decision, "updated_key_points", state.key_points),
          final_decisions |-> Get(user_decision, "updated_decisions", state.decisions),
          final_action_items |-> Get(user_decision, "updated_actions", state.action_items),
          human_approved |-> TRUE,
          human_feedback |-> Get(user_decision, "feedback", "Approved"),
          status |-> "approved"]
    ELSE [human_approved |-> FALSE,
          human_feedback |-> Get(user_decision, "feedback", "Rejected - needs revision"),
          status |-> "revision_requested",
          retry_count |-> state.retry_count]

\* human_review_node after interrupt() returned user_decision.
human_review_node(state, user_decision) ==
    IF Get(user_decision, "action", None) = "approve"
    THEN [final_summary |-> Get(user_decision, "updated_summary", state.draft_summary),
          final_key_points |-> Get(user_decision, "updated_key_points", state.key_points),
          final_decisions |-> Get(user_decision, "updated_decisions", state.decisions),
          final_action_items |-> Get(user_decision, "updated_actions", state.action_items),
          human_approved |-> TRUE,
          human_feedback |-> Get(user_decision, "feedback", "Approved"),
          status |-> "approved"]
    ELSE [human_approved |-> FALSE,
          human_feedback |-> Get(user_decision, "feedback", "Rejected - needs revision"),
          status |-> "revision_requested",
          retry_count |-> state.retry_count + 1]

save_node(state) ==
    [status |-> "completed", human_approved |-> TRUE, completed_at |-> "now"]

(***************************************************************************)
(* graph.py: routing functions and the edges of create_meeting_graph.      *)
(***************************************************************************)
route_after_critique_le(state) ==
    IF Get(state, "status", None) = "failed" THEN "end"
    ELSE IF Get(state, "critique_passed", FALSE) THEN "human_review"
    ELSE IF Get(state, "retry_count", 0) <= 3 THEN "summarizer"
    ELSE "human_review"

route_after_critique_passed_first(state) ==
    IF Get(state, "critique_passed", FALSE) THEN "human_review"
    ELSE IF Get(state, "status", None) = "failed" THEN "end"
    ELSE IF Get(state, "retry_count", 0) < 3 THEN "summarizer"
    ELSE "human_review"

route_after_critique(state) ==
    IF Get(state, "status", None) = "failed" THEN "end"
    ELSE IF Get(state, "critique_passed", FALSE) THEN "human_review"
    ELSE IF Get(state, "retry_count", 0) < 3 THEN "summarizer"
    ELSE "human_review"

route_after_human_review_count_first(state) ==
    IF Get(state, "retry_count", 0) < 5 THEN "summarizer"
    ELSE IF Get(state, "human_approved", FALSE) THEN "save"
    ELSE "end"

route_after_human_review_le(state) ==
    IF Get(state, "human_approved", FALSE) THEN "save"
    ELSE IF Get(state, "retry_count", 0) <= 5 THEN "summarizer"
    ELSE "end"

route_after_human_review(state) ==
    IF Get(state, "human_approved", FALSE) THEN "save"
    ELSE IF Get(state, "retry_count", 0) < 5 THEN "summarizer"
    ELSE "end"

route_after_stt(state) ==
    IF Get(state, "status", None) = "failed" THEN "end" ELSE "summarizer"

state_after_routing_counts(state) ==
    [k \in DOMAIN state |-> IF k = "retry_count" THEN state[k] + 1 ELSE state[k]]

\* The state dict after a call of a routing function: the three functions
\* only read it (state.get), none assigns to it.
state_after_routing(state) == state

\* The node that follows `node` once its delta is applied.
NextNode(node, state) ==
    CASE node = "stt" -> route_after_stt(state)
      [] node = "summarizer" -> "extract_actions"
      [] node = "extract_actions" -> "critique"
      [] node = "critique" -> route_after_critique(state)
      [] node = "human_review" -> route_after_human_review(state)
      [] node = "save" -> "end"

(***************************************************************************)
(* The running system: one meeting id (thread_id), its checkpoint, and the *)
(* executions of process_meeting / resume_after_review on it.  Every       *)
(* execution works on its own copy of the channel values, loaded from the  *)
(* checkpoint when graph.ainvoke starts, and writes the checkpoint after   *)
(* each node; nothing in process_meeting, resume_after_review or their     *)
(* callers serialises two executions on one thread_id.                     *)
(***************************************************************************)
\* Concurrent callers (API background tasks, Celery workers).
Execs == {"e1", "e2"}

Nodes == {"stt", "summarizer", "extract_actions", "critique", "human_review", "save"}

\* Values of ReviewDecision.action: the two documented ones and any other string.
ReviewActions == {"approve", "reject", "other"}

\* The dict resume_after_review builds: every key present, None when not supplied.
user_decision(action, feedback, updated_summary, updated_key_points, updated_decisions, updated_actions) ==
    [action |-> action, feedback |-> feedback,
     updated_summary |-> updated_summary,
     updated_key_points |-> updated_key_points,
     updated_decisions |-> updated_decisions,
     updated_actions |-> updated_actions]

\* The reviewer edits nothing, one of the four fields, or all of them.
Updates ==
    {<<None, None, None, None>>, <<"edited", None, None, None>>,
     <<None, "edited", None, None>>, <<None, None, "edited", None>>,
     <<None, None, None, "edited">>, <<"edited", "edited", "edited", "edited">>}

Decisions ==
    {user_decision(a, f, u[1], u[2], u[3], u[4]) :
        a \in ReviewActions, f \in {None, "feedback"}, u \in Updates}

NoDecision == user_decision(None, None, None, None, None, None)

NoInterrupt == [pending |-> FALSE, payload |-> review_data(NoValues)]

NoCheckpoint ==
    [exists |-> FALSE, values |-> NoValues, next |-> None, interrupt |-> NoInterrupt]

\* Outcomes of the external calls, as sequences of per-call outcomes.
SttOuts ==
    {FailsThenOk(n, err) : n \in 0..4,
        err \in {STTTimeoutError, STTNetworkError, STTAudioError, STTError}}
SummarizerOuts ==
    {FailsThenOk(n, err) : n \in 0..4,
        err \in {LLMResponseError, LLMRateLimitError, SummarizerError}}
ExtractOuts ==
    {FailsThenOk(n, err) : n \in 0..4,
        err \in {LLMResponseError, LLMRateLimitError, ActionExtractorError}}
CritiqueOuts ==
    {FailsThenOk(n, err) : n \in 0..4, err \in {LLMResponseError, CritiqueError}}

\* Inputs of the retry wrapper when it is exercised on its own.
RetryErrors ==
    {PipelineError("PipelineError", r, s, 0) : r \in BOOLEAN, s \in Severities}
        \cup {PlainException}
RetryInputs ==
    [M : 0..MaxRetriesBound, n : 0..MaxFailures, err : RetryErrors,
     attempt : 0..(MaxRetriesBound + 1)]
\* States handed to the routing functions on their own: any subset of the
\* keys the routers read may be missing.
RouteKeys == {"status", "critique_passed", "retry_count", "human_approved"}
RouteStates ==
    {[k \in K |-> full[k]] :
        K \in SUBSET RouteKeys,
        full \in [status : {"failed", "critique_complete", "approved", "revision_requested"},
                  critique_passed : BOOLEAN,
                  retry_count : 0..MaxRetryCount,
                  human_approved : BOOLEAN]}
\* Inputs of calculate_delay when it is exercised on its own: the shipped
\* configs with jitter on and off, errors with and without a retry_delay
\* hint, and the jitter draw.
DelayConfigs ==
    {[RETRY_CONFIGS[k] EXCEPT !.jitter = j] : k \in DOMAIN RETRY_CONFIGS, j \in BOOLEAN}
DelayErrors ==
    {NoError, STTNetworkError, STTTimeoutError, LLMRateLimitError, LLMResponseError}
DelayInputs ==
    [attempt : 0..MaxAttempt, config : DelayConfigs, error : DelayErrors,
     u : {0, 25, 50}]
NotRouted ==
    [critique |-> None, human_review |-> None, stt |-> None,
     again |-> [critique |-> None, human_review |-> None, stt |-> None],
     arg |-> <<>>]
\* Inputs of a stage exercised on its own: the external call raises the same
\* exception on its first n calls.
RawExceptions ==
    {RawException(t, r) :
        t \in {"TimeoutError", "ConnectionError", "ValueError", "JSONDecodeError", "Exception"},
        r \in BOOLEAN}
StageInputs == [n : 0..MaxFailures, exc : RawExceptions]
StageNotRun == [ran |-> FALSE, calls |-> 0, status |-> "pending"]

\* Coroutines calling get_checkpointer in one process, and a caller that has
\* not called yet.  Instances are numbered from 1 in the order of their
\* creation; 0 stands for None.
Getters == 1..MaxGetters
GetterIdle == [pc |-> "idle", mine |-> 0, got |-> 0]

NotRun == [calls |-> 0, raised |-> None, ok |-> FALSE, ran |-> FALSE]
Ran(r) == [calls |-> r.calls, raised |-> r.raised, ok |-> r.ok, ran |-> TRUE]

VARIABLES
    ckpt,           \* the checkpoint of the thread: values, next node, pending interrupt
    exec,           \* per caller: the execution of ainvoke it is in
    pending_retry,  \* process_meeting_task has a retry scheduled
    calls,          \* invocations made so far (counted under ConcurrentSpec only)
    retry_in,       \* inputs of a stand-alone retry_async / RetryContext run
    retry_out,      \* its results
    route_in,       \* the state handed to the routing functions on their own
    route_out,      \* what each of them returned
    summarizer_runs,\* runs of summarizer_node in the job (counted under LiveSpec only)
    checkpointer,   \* checkpointer.py: the module global and the instances created
    getter          \* per caller of get_checkpointer: where it is and what it got

vars == <<ckpt, exec, pending_retry, calls, retry_in, retry_out, route_in, route_out, summarizer_runs, checkpointer, getter>>
counters == <<calls, summarizer_runs>>
graph_vars == <<ckpt, exec, pending_retry, counters>>
retry_vars == <<retry_in, retry_out>>
route_vars == <<route_in, route_out>>
singleton_vars == <<checkpointer, getter>>
pure_vars == <<retry_vars, route_vars, singleton_vars>>

Idle ==
    [pc |-> "idle", origin |-> None, node |-> None, st |-> NoValues,
     decision |-> NoDecision, delivered |-> FALSE, loaded |-> None,
     resumed_rc |-> 0, decided |-> None, saves |-> 0,
     loops |-> 0, allfail |-> TRUE, call_ok |-> TRUE, ret |-> None]

GraphInit ==
    /\ ckpt = NoCheckpoint
    /\ exec = [e \in Execs |-> Idle]
    /\ pending_retry = FALSE
    /\ calls = 0
    /\ summarizer_runs = 0

RetryIdle ==
    /\ retry_in = [M |-> 0, n |-> 0, err |-> PlainException, attempt |-> 0]
    /\ retry_out = [async |-> NotRun, ctx |-> NotRun, should_retry |-> [ran |-> FALSE, value |-> FALSE]]

RouteIdle ==
    /\ route_in = <<>>
    /\ route_out = NotRouted

\* No call of get_checkpointer yet: the module global is None.
SingletonIdle ==
    /\ checkpointer = [global |-> 0, created |-> 0]
    /\ getter = [g \in Getters |-> GetterIdle]

Init == GraphInit /\ RetryIdle /\ RouteIdle /\ SingletonIdle

\* review.py get_review_status: graph.aget_state(config) is read and nothing
\* is written.  c is the thread's checkpoint; the status of a thread without
\* values comes from the meeting row, abstracted to "meeting.status".
get_review_status(c) ==
    IF ~c.exists
    THEN [status |-> "meeting.status", requires_review |-> FALSE, has_review_data |-> FALSE]
    ELSE LET current_state == c.values
             requires_review == Get(current_state, "requires_human_review", FALSE)
         IN [status |-> Get(current_state, "status", "unknown"),
             requires_review |-> requires_review,
             has_review_data |-> requires_review]

\* graph.ainvoke(initial_state, config): the input is applied to the channels
\* of the thread (whatever they hold), the input checkpoint is written and
\* the run begins at the entry point.
Invoke(e, origin) ==
    LET st == ApplyWrites(ckpt.values, create_initial_state) IN
    /\ exec' = [exec EXCEPT ![e] =
                  [Idle EXCEPT !.pc = "running", !.origin = origin,
                               !.node = "stt", !.st = st]]
    /\ ckpt' = [exists |-> TRUE, values |-> st, next |-> "stt",
                interrupt |-> NoInterrupt]

\* process_meeting, called by trigger_langgraph_workflow or directly.
process_meeting(e) ==
    /\ exec[e].pc = "idle"
    /\ Invoke(e, "start")
    /\ UNCHANGED <<pending_retry, pure_vars>>

\* process_meeting_task run again by self.retry after its run was aborted.
process_meeting_task_retry(e) ==
    /\ exec[e].pc = "idle"
    /\ pending_retry
    /\ Invoke(e, "redrive")
    /\ pending_retry' = FALSE
    /\ UNCHANGED pure_vars

resume_always_reenters(e) ==
    /\ exec[e].pc = "idle"
    /\ ckpt.exists
    /\ \E d \in Decisions :
        exec' = [exec EXCEPT ![e] =
                    [Idle EXCEPT !.pc = "running", !.origin = "resume",
                                 !.loaded = IF ckpt.next = "end" THEN "ended" ELSE "interrupt",
                                 !.st = ckpt.values, !.node = "human_review",
                                 !.decision = d, !.delivered = TRUE,
                                 !.resumed_rc = ckpt.values.retry_count]]
    /\ UNCHANGED <<ckpt, pending_retry, pure_vars>>

\* resume_after_review: graph.ainvoke(Command(resume=user_decision), config).
\* A thread without checkpoint has nothing to resume (the call returns or
\* raises, no node completes); a thread at END returns its values; a thread
\* waiting at human_review re-enters it with the decision; any other thread
\* continues at the node its checkpoint names.
resume_after_review(e) ==
    /\ exec[e].pc = "idle"
    /\ \E d \in Decisions :
        IF ~ckpt.exists
        THEN \E r \in {"error", "state"} :
                exec' = [exec EXCEPT ![e] =
                    [Idle EXCEPT !.pc = "done", !.origin = "resume",
                                 !.loaded = "absent", !.ret = r]]
        ELSE IF ckpt.next = "end"
        THEN exec' = [exec EXCEPT ![e] =
                    [Idle EXCEPT !.pc = "done", !.origin = "resume",
                                 !.loaded = "ended", !.st = ckpt.values,
                                 !.ret = "state"]]
        ELSE IF ckpt.interrupt.pending \/ ckpt.next = "human_review"
        THEN exec' = [exec EXCEPT ![e] =
                    [Idle EXCEPT !.pc = "running", !.origin = "resume",
                                 !.loaded = IF ckpt.interrupt.pending
                                            THEN "interrupt" ELSE "running",
                                 !.st = ckpt.values, !.node = "human_review",
                                 !.decision = d, !.delivered = TRUE,
                                 !.resumed_rc = ckpt.values.retry_count]]
        ELSE exec' = [exec EXCEPT ![e] =
                    [Idle EXCEPT !.pc = "running", !.origin = "resume",
                                 !.loaded = "running", !.st = ckpt.values,
                                 !.node = ckpt.next]]
    /\ UNCHANGED <<ckpt, pending_retry, pure_vars>>

\* One superstep: the node's delta is applied, the edge out of the node is
\* taken and the checkpoint is written; at END ainvoke returns the values.
\* An exception that leaves the node leaves ainvoke, and process_meeting and
\* resume_after_review, which catch nothing: no checkpoint is written.
RunNode(e, delta, count) ==
    LET x == exec[e]
        st == ApplyWrites(x.st, delta)
        nxt == NextNode(x.node, st)
    IN
    IF "raise" \in DOMAIN delta
    THEN /\ exec' = [exec EXCEPT ![e] =
                [x EXCEPT !.pc = "done", !.ret = "error",
                          !.decision = NoDecision, !.delivered = FALSE,
                          !.call_ok = FALSE]]
         /\ UNCHANGED <<ckpt, pending_retry, pure_vars>>
    ELSE
    /\ exec' = [exec EXCEPT ![e] =
          [x EXCEPT !.st = st, !.node = nxt,
                    !.pc = IF nxt = "end" THEN "done" ELSE "running",
                    !.ret = IF nxt = "end" THEN "state" ELSE None,
                    !.decision = NoDecision, !.delivered = FALSE,
                    !.decided = IF x.node = "human_review" THEN x.decision.action ELSE @,
                    !.saves = @ + count.saves,
                    !.loops = IF x.node \in {"critique", "human_review"} /\ nxt = "summarizer"
                              THEN @ + 1 ELSE @,
                    !.allfail = @ /\ count.allfail,
                    !.call_ok = count.call_ok]]
    /\ ckpt' = [exists |-> TRUE, values |-> st, next |-> nxt,
                interrupt |-> NoInterrupt]
    /\ UNCHANGED <<pending_retry, pure_vars>>

\* What a step adds to the bookkeeping of its execution: runs of save_node,
\* whether the run is still one in which every critique failed the draft and
\* no call failed, and whether the node's external call succeeded.
Count(saves, allfail, call_ok) ==
    [saves |-> saves, allfail |-> allfail, call_ok |-> call_ok]

Running(e, node) == exec[e].pc = "running" /\ exec[e].node = node

SttStep(e) ==
    /\ Running(e, "stt")
    /\ \E use_claude_audio \in BOOLEAN, outs \in SttOuts, post \in {"ok", "Exception"} :
          RunNode(e, stt_node(use_claude_audio, outs, post),
                  Count(0, TRUE,
                        Get(stt_node(use_claude_audio, outs, post), "status", None)
                            = "stt_complete"))

SummarizerStep(e) ==
    /\ Running(e, "summarizer")
    /\ \E outs \in SummarizerOuts :
          RunNode(e, summarizer_node(exec[e].st, outs),
                  Count(0, retry_async(RETRY_CONFIGS.llm, outs).ok,
                        retry_async(RETRY_CONFIGS.llm, outs).ok))

ExtractStep(e) ==
    /\ Running(e, "extract_actions")
    /\ \E outs \in ExtractOuts :
          RunNode(e, action_extractor_node(exec[e].st, outs),
                  Count(0, retry_async(RETRY_CONFIGS.llm, outs).ok,
                        retry_async(RETRY_CONFIGS.llm, outs).ok))

CritiqueStep(e) ==
    /\ Running(e, "critique")
    /\ \E outs \in CritiqueOuts, passed \in BOOLEAN :
          RunNode(e, critique_node(exec[e].st, outs, passed),
                  Count(0, retry_async(RETRY_CONFIGS.llm, outs).ok /\ ~passed,
                        retry_async(RETRY_CONFIGS.llm, outs).ok))

HumanReviewNoInterrupt(e) ==
    /\ Running(e, "human_review")
    /\ ~exec[e].delivered
    /\ RunNode(e, human_review_node(exec[e].st, NoDecision), Count(0, TRUE, TRUE))

\* human_review_node reaches interrupt() with no resume value: the payload is
\* recorded with the checkpoint and ainvoke returns.
HumanReviewInterrupt(e) ==
    /\ Running(e, "human_review")
    /\ ~exec[e].delivered
    /\ exec' = [exec EXCEPT ![e] = [@ EXCEPT !.pc = "done", !.ret = "interrupted"]]
    /\ ckpt' = [exists |-> TRUE, values |-> exec[e].st, next |-> "human_review",
                interrupt |-> [pending |-> TRUE, payload |-> review_data(exec[e].st)]]
    /\ UNCHANGED <<pending_retry, pure_vars>>

\* human_review_node re-entered with the resume value.
HumanReviewDecide(e) ==
    /\ Running(e, "human_review")
    /\ exec[e].delivered
    /\ RunNode(e, human_review_node(exec[e].st, exec[e].decision), Count(0, TRUE, TRUE))

SaveStep(e) ==
    /\ Running(e, "save")
    /\ RunNode(e, save_node(exec[e].st), Count(1, TRUE, TRUE))

\* ainvoke has returned (or raised) and the caller is free again.
Return(e) ==
    /\ exec[e].pc = "done"
    /\ exec' = [exec EXCEPT ![e] = Idle]
    /\ UNCHANGED <<ckpt, pending_retry, pure_vars>>

\* The run is aborted between two nodes (worker killed, exception out of
\* the checkpointer); a run started by process_meeting_task is retried.
Crash(e) ==
    /\ exec[e].pc = "running"
    /\ exec' = [exec EXCEPT ![e] = Idle]
    /\ pending_retry' = (pending_retry \/ exec[e].origin \in {"start", "redrive"})
    /\ UNCHANGED <<ckpt, pure_vars>>

\* One caller: the entry points are invoked one after the other, any number
\* of times, and a run may be aborted between two nodes.
Next ==
    \/ process_meeting("e1") /\ UNCHANGED counters
    \/ process_meeting_task_retry("e1") /\ UNCHANGED counters
    \/ resume_after_review("e1") /\ UNCHANGED counters
    \/ SttStep("e1") /\ UNCHANGED counters
    \/ SummarizerStep("e1") /\ UNCHANGED counters
    \/ ExtractStep("e1") /\ UNCHANGED counters
    \/ CritiqueStep("e1") /\ UNCHANGED counters
    \/ HumanReviewInterrupt("e1") /\ UNCHANGED counters
    \/ HumanReviewDecide("e1") /\ UNCHANGED counters
    \/ SaveStep("e1") /\ UNCHANGED counters
    \/ Return("e1") /\ UNCHANGED counters
    \/ Crash("e1") /\ UNCHANGED counters

Spec == Init /\ [][Next]_vars

\* Two callers (two requests to start_meeting_processing / submit_review, or
\* a request and a Celery task) on the same meeting id, interleaved freely;
\* no run is aborted.
ConcurrentNext ==
    \E e \in Execs :
        \/ calls < MaxCalls /\ process_meeting(e) /\ calls' = calls + 1 /\ UNCHANGED summarizer_runs
        \/ calls < MaxCalls /\ resume_after_review(e) /\ calls' = calls + 1 /\ UNCHANGED summarizer_runs
        \/ SttStep(e) /\ UNCHANGED counters
        \/ SummarizerStep(e) /\ UNCHANGED counters
        \/ ExtractStep(e) /\ UNCHANGED counters
        \/ CritiqueStep(e) /\ UNCHANGED counters
        \/ HumanReviewInterrupt(e) /\ UNCHANGED counters
        \/ HumanReviewDecide(e) /\ UNCHANGED counters
        \/ SaveStep(e) /\ UNCHANGED counters
        \/ Return(e) /\ UNCHANGED counters

ConcurrentSpec == Init /\ [][ConcurrentNext]_vars

\* The status in the job's checkpoint is set to "cancelled" from outside the
\* engine while the job is between two stages (an execution is running or
\* the job is suspended at human_review).  Nothing in the graph reads the
\* checkpoint between two nodes: a running execution goes on with the values
\* it holds, and resume_after_review loads the marked values.
CancelOutOfBand ==
    /\ ckpt.exists
    /\ ckpt.next # "end"
    /\ ckpt.values.status # "cancelled"
    /\ \A e \in Execs : exec[e].pc # "done"
    /\ ckpt' = [ckpt EXCEPT !.values.status = "cancelled"]
    /\ UNCHANGED <<exec, pending_retry, counters, pure_vars>>

CancelNext ==
    \/ process_meeting("e1") /\ UNCHANGED counters
    \/ resume_after_review("e1") /\ UNCHANGED counters
    \/ SttStep("e1") /\ UNCHANGED counters
    \/ SummarizerStep("e1") /\ UNCHANGED counters
    \/ ExtractStep("e1") /\ UNCHANGED counters
    \/ CritiqueStep("e1") /\ UNCHANGED counters
    \/ HumanReviewInterrupt("e1") /\ UNCHANGED counters
    \/ HumanReviewDecide("e1") /\ UNCHANGED counters
    \/ SaveStep("e1") /\ UNCHANGED counters
    \/ Return("e1") /\ UNCHANGED counters
    \/ CancelOutOfBand

CancelSpec == Init /\ [][CancelNext]_vars

(***************************************************************************)
(* The retry wrapper on its own: a config and a function that fails n      *)
(* times are drawn, retry_async and the RetryContext loop are run on them. *)
(***************************************************************************)
RetryInit ==
    /\ GraphInit
    /\ SingletonIdle
    /\ RouteIdle
    /\ retry_in \in RetryInputs
    /\ retry_out = [async |-> NotRun, ctx |-> NotRun, should_retry |-> [ran |-> FALSE, value |-> FALSE]]

RunRetryAsync ==
    /\ ~retry_out.async.ran
    /\ retry_out' = [retry_out EXCEPT !.async =
          Ran(retry_async(RetryConfig(retry_in.M), FailsThenOk(retry_in.n, retry_in.err)))]
    /\ UNCHANGED <<retry_in, graph_vars, route_vars, singleton_vars>>

RunRetryContext ==
    /\ ~retry_out.ctx.ran
    /\ retry_out' = [retry_out EXCEPT !.ctx =
          Ran(retry_context_loop(RetryConfig(retry_in.M),
                                 FailsThenOk(retry_in.n, retry_in.err), 0, 0))]
    /\ UNCHANGED <<retry_in, graph_vars, route_vars, singleton_vars>>

RunShouldRetry ==
    /\ ~retry_out.should_retry.ran
    /\ retry_out' = [retry_out EXCEPT !.should_retry =
          [ran |-> TRUE,
           value |-> should_retry(retry_in.err, RetryConfig(retry_in.M), retry_in.attempt)]]
    /\ UNCHANGED <<retry_in, graph_vars, route_vars, singleton_vars>>

RetryNext == RunRetryAsync \/ RunRetryContext \/ RunShouldRetry

RetrySpec == RetryInit /\ [][RetryNext]_vars

(***************************************************************************)
(* One job, started once and never aborted: every node returns, and a job  *)
(* suspended at human_review is resumed with some decision.                *)
(***************************************************************************)
LiveNext ==
    \/ ~ckpt.exists /\ process_meeting("e1") /\ UNCHANGED counters
    \/ ckpt.interrupt.pending /\ resume_after_review("e1") /\ UNCHANGED counters
    \/ SttStep("e1") /\ UNCHANGED counters
    \/ SummarizerStep("e1") /\ summarizer_runs' = summarizer_runs + 1 /\ UNCHANGED calls
    \/ ExtractStep("e1") /\ UNCHANGED counters
    \/ CritiqueStep("e1") /\ UNCHANGED counters
    \/ HumanReviewInterrupt("e1") /\ UNCHANGED counters
    \/ HumanReviewDecide("e1") /\ UNCHANGED counters
    \/ SaveStep("e1") /\ UNCHANGED counters
    \/ Return("e1") /\ UNCHANGED counters

LiveSpec == Init /\ [][LiveNext]_vars /\ WF_vars(LiveNext)

(***************************************************************************)
(* checkpointer.py: coroutines of one event loop calling get_checkpointer. *)
(* A coroutine runs without interruption up to its next await; the only    *)
(* await on the way is `await checkpointer.setup()` in create_checkpointer.*)
(***************************************************************************)
\* get_checkpointer up to the await: the test `_checkpointer is None`, and
\* either the return of the global or the creation of an instance.
get_checkpointer(g) ==
    /\ getter[g].pc = "idle"
    /\ IF checkpointer.global = 0
       THEN /\ checkpointer' = [checkpointer EXCEPT !.created = @ + 1]
            /\ getter' = [getter EXCEPT ![g] =
                  [pc |-> "setup", mine |-> checkpointer.created + 1, got |-> 0]]
       ELSE /\ getter' = [getter EXCEPT ![g] =
                  [pc |-> "returned", mine |-> 0, got |-> checkpointer.global]]
            /\ UNCHANGED checkpointer
    /\ UNCHANGED <<graph_vars, retry_vars, route_vars>>

\* setup() completes: create_checkpointer returns its instance, which
\* get_checkpointer assigns to the global and returns.
create_checkpointer(g) ==
    /\ getter[g].pc = "setup"
    /\ checkpointer' = [checkpointer EXCEPT !.global = getter[g].mine]
    /\ getter' = [getter EXCEPT ![g] = [@ EXCEPT !.pc = "returned", !.got = getter[g].mine]]
    /\ UNCHANGED <<graph_vars, retry_vars, route_vars>>

SingletonNext ==
    \/ \E g \in Getters : get_checkpointer(g)
    \/ \E g \in Getters : create_checkpointer(g)

SingletonSpec == Init /\ [][SingletonNext]_vars

(***************************************************************************)
(* calculate_delay on its own: the delay before the retry after `attempt`  *)
(* and the one after `attempt + 1`, for the same config, error and draw.   *)
(***************************************************************************)
DelayInit ==
    /\ GraphInit
    /\ SingletonIdle
    /\ RouteIdle
    /\ retry_in \in DelayInputs
    /\ retry_out = [ran |-> FALSE, delay |-> 0, next_delay |-> 0]

RunCalculateDelay ==
    /\ ~retry_out.ran
    /\ retry_out' =
          [ran |-> TRUE,
           delay |-> calculate_delay(retry_in.attempt, retry_in.config,
                                     retry_in.error, retry_in.u),
           next_delay |-> calculate_delay(retry_in.attempt + 1, retry_in.config,
                                          retry_in.error, retry_in.u)]
    /\ UNCHANGED <<retry_in, graph_vars, route_vars, singleton_vars>>

DelayNext == RunCalculateDelay

DelaySpec == DelayInit /\ [][DelayNext]_vars

(***************************************************************************)
(* stt_node and summarizer_node on their own, the external call raising    *)
(* the drawn exception on its first n calls: the number of calls made and  *)
(* the status the node returns.                                            *)
(***************************************************************************)
StageInit ==
    /\ GraphInit
    /\ SingletonIdle
    /\ RouteIdle
    /\ retry_in \in StageInputs
    /\ retry_out = [stt |-> StageNotRun, summarizer |-> StageNotRun]

RunSttNode ==
    /\ ~retry_out.stt.ran
    /\ LET outs == FailsThenOk(retry_in.n, do_transcribe(retry_in.exc)) IN
       retry_out' = [retry_out EXCEPT !.stt =
          [ran |-> TRUE,
           calls |-> retry_async(RETRY_CONFIGS.stt, outs).calls,
           status |-> stt_node(FALSE, outs, "ok").status]]
    /\ UNCHANGED <<retry_in, graph_vars, route_vars, singleton_vars>>

RunSummarizerNode ==
    /\ ~retry_out.summarizer.ran
    /\ LET outs == FailsThenOk(retry_in.n, do_summarize(retry_in.exc)) IN
       retry_out' = [retry_out EXCEPT !.summarizer =
          [ran |-> TRUE,
           calls |-> retry_async(RETRY_CONFIGS.llm, outs).calls,
           status |-> summarizer_node(create_initial_state, outs).status]]
    /\ UNCHANGED <<retry_in, graph_vars, route_vars, singleton_vars>>

StageNext == RunSttNode \/ RunSummarizerNode

StageSpec == StageInit /\ [][StageNext]_vars

(***************************************************************************)
(* The routing functions on their own: a state is drawn and each router    *)
(* is called on it twice, the second call on the state the first left.     *)
(***************************************************************************)
RouteInit ==
    /\ GraphInit
    /\ SingletonIdle
    /\ RetryIdle
    /\ route_in \in RouteStates
    /\ route_out = [NotRouted EXCEPT !.arg = route_in]

RunRouteAfterCritique ==
    /\ route_out.critique = None
    /\ route_out' = [route_out EXCEPT
          !.critique = route_after_critique(route_in),
          !.again.critique = route_after_critique(state_after_routing(route_in))]
    /\ route_in' = state_after_routing(state_after_routing(route_in))
    /\ UNCHANGED <<graph_vars, retry_vars, singleton_vars>>

RunRouteAfterHumanReview ==
    /\ route_out.human_review = None
    /\ route_out' = [route_out EXCEPT
          !.human_review = route_after_human_review(route_in),
          !.again.human_review = route_after_human_review(state_after_routing(route_in))]
    /\ route_in' = state_after_routing(state_after_routing(route_in))
    /\ UNCHANGED <<graph_vars, retry_vars, singleton_vars>>

RunRouteAfterStt ==
    /\ route_out.stt = None
    /\ route_out' = [route_out EXCEPT
          !.stt = route_after_stt(route_in),
          !.again.stt = route_after_stt(state_after_routing(route_in))]
    /\ route_in' = state_after_routing(state_after_routing(route_in))
    /\ UNCHANGED <<graph_vars, retry_vars, singleton_vars>>

RouteNext == RunRouteAfterCritique \/ RunRouteAfterHumanReview \/ RunRouteAfterStt

RouteSpec == RouteInit /\ [][RouteNext]_vars

(***************************************************************************)
(* Properties                                                              *)
(***************************************************************************)
Retryable(err) == err.pipeline /\ err.recoverable /\ err.severity # "critical"
Fresh(e) == exec[e].origin \in {"start", "redrive"}

\* C1: with max_retries = M and a function failing with a recoverable,
\* non-critical PipelineError on its first n calls, retry_async calls it exactly
\* min(M, n) + 1 times; for n > M it fails after exactly M + 1 calls; with
\* M = 0 the first error fails the call after one call.
C1_RetryBound ==
    LET i == retry_in
        r == retry_out.async
    IN (r.ran /\ Retryable(i.err)) =>
          /\ r.calls = Min(i.M, i.n) + 1
          /\ (i.n > i.M => ~r.ok /\ r.calls = i.M + 1)
          /\ (i.n <= i.M => r.ok)
          /\ (i.M = 0 /\ i.n >= 1 => r.calls = 1 /\ ~r.ok)

C1_Witness ==
    /\ retry_out.async.ran
    /\ Retryable(retry_in.err)
    /\ retry_in.M >= 2
    /\ retry_in.n > retry_in.M
    /\ retry_out.async.calls = retry_in.M + 1

\* C2: when every attempt fails with a recoverable, non-critical error and
\* the attempts are exhausted, retry_async and the RetryContext loop raise
\* MaxRetriesExceededError; the original error is raised only when it is
\* not retryable.
C2_ExhaustedRaisesMaxRetries ==
    \A r \in {retry_out.async, retry_out.ctx} :
        (r.ran /\ ~r.ok /\ retry_in.err.pipeline) =>
            IF Retryable(retry_in.err)
            THEN r.raised = MaxRetriesExceededError.cls
            ELSE r.raised = retry_in.err.cls

\* C3: once a stage has recorded status = failed the job goes to end and no
\* further stage runs; once completed is recorded no stage runs either: no
\* execution is ever about to run a node on a failed or completed state.
C3_TerminalStatusEndsJob ==
    \A e \in Execs :
        exec[e].pc = "running" => exec[e].st.status \notin {"failed", "completed"}

C5_SingleActiveExecution ==
    Cardinality({e \in Execs : exec[e].pc = "running"}) <= 1

\* C6: a run re-driven after an abort between two stages continues from the
\* last checkpoint: it begins at the node the checkpoint names as next, on
\* the checkpointed values, and so re-executes no stage already checkpointed.
C6_RedriveContinuesFromCheckpoint ==
    [][\A e \in Execs :
          (exec[e].pc = "idle" /\ exec'[e].origin = "redrive")
          => (exec'[e].node = ckpt.next /\ exec'[e].st = ckpt.values)]_vars

\* C7: a run started by process_meeting halts at human_review with the review
\* payload recorded as pending interrupt; human_review applies no delta, save
\* is not executed and status does not become completed in that run; save
\* runs only in a run made by resume_after_review.
C7_SuspendsAtHumanReview ==
    /\ ckpt.interrupt.pending =>
          /\ ckpt.next = "human_review"
          /\ ckpt.values.status = "critique_complete"
          /\ ~ckpt.values.human_approved
          /\ ckpt.interrupt.payload.minutes = ckpt.values.draft_summary
          /\ ckpt.interrupt.payload.key_points = ckpt.values.key_points
          /\ ckpt.interrupt.payload.decisions = ckpt.values.decisions
          /\ ckpt.interrupt.payload.proposed_actions = ckpt.values.action_items
    /\ \A e \in Execs :
          /\ Fresh(e) =>
                /\ exec[e].saves = 0
                /\ exec[e].st.status \notin {"approved", "revision_requested", "completed"}
                /\ (exec[e].node = "human_review" /\ exec[e].pc = "done"
                        => exec[e].ret = "interrupted" /\ ckpt.interrupt.pending
                           /\ ckpt.values = exec[e].st)
                /\ exec[e].node # "save"
          /\ exec[e].saves > 0 => exec[e].origin = "resume"

C7_Witness ==
    \E e \in Execs :
        /\ exec[e].origin = "start"
        /\ exec[e].pc = "done"
        /\ exec[e].ret = "interrupted"
        /\ ckpt.interrupt.pending
        /\ ckpt.interrupt.payload.minutes = "draft"

\* C8: resuming a suspended job with action = approve makes human_review
\* return human_approved = true and status = approved, then save runs exactly
\* once and the job reaches end with status = completed, without the run
\* going through summarizer.
C8_ApprovePath ==
    \A e \in Execs :
        (exec[e].origin = "resume" /\ exec[e].decided = "approve") =>
            /\ exec[e].loops = 0
            /\ exec[e].st.human_approved
            /\ exec[e].pc = "running" =>
                  /\ exec[e].node = "save"
                  /\ exec[e].st.status = "approved"
                  /\ exec[e].saves = 0
            /\ exec[e].pc = "done" =>
                  /\ exec[e].node = "end"
                  /\ exec[e].ret = "state"
                  /\ exec[e].st.status = "completed"
                  /\ exec[e].saves = 1

C8_Witness ==
    \E e \in Execs :
        /\ exec[e].origin = "resume"
        /\ exec[e].loaded = "interrupt"
        /\ exec[e].decided = "approve"
        /\ exec[e].pc = "done"
        /\ exec[e].st.status = "completed"

\* The state right after human_review handled a rejection of a suspended job.
JustRejected(e) ==
    /\ exec[e].origin = "resume"
    /\ exec[e].loaded = "interrupt"
    /\ exec[e].decided = "reject"
    /\ exec[e].st.status = "revision_requested"

\* C9 (as stated): a job suspended with retry_count = 4 and rejected goes back
\* to summarizer; one suspended with retry_count = 5 and rejected goes to end.
C9_RejectAtFourLoopsBack ==
    \A e \in Execs :
        JustRejected(e) =>
            /\ exec[e].resumed_rc = 4 =>
                  exec[e].pc = "running" /\ exec[e].node = "summarizer"
            /\ exec[e].resumed_rc = 5 =>
                  exec[e].pc = "done" /\ exec[e].node = "end"

\* C9 (amended): human_review raises retry_count before the route is taken,
\* so a job suspended with retry_count <= 3 and rejected goes back to
\* summarizer, and one suspended with retry_count = 4 or 5 goes to end.
C9_RejectCeiling ==
    \A e \in Execs :
        JustRejected(e) =>
            /\ exec[e].st.retry_count = exec[e].resumed_rc + 1
            /\ exec[e].resumed_rc <= 3 =>
                  exec[e].pc = "running" /\ exec[e].node = "summarizer"
            /\ exec[e].resumed_rc \in {4, 5} =>
                  exec[e].pc = "done" /\ exec[e].node = "end"

C9_Witness ==
    \E e \in Execs :
        /\ JustRejected(e)
        /\ exec[e].resumed_rc = 4
        /\ exec[e].pc = "done"

\* A job started afresh in which every critique so far returned passed = false
\* and no call failed, now handed to human_review.
HandedOverAllFailed(e) ==
    /\ Fresh(e)
    /\ exec[e].allfail
    /\ exec[e].node = "human_review"

\* C10 (as stated): with every critique failing, the job takes three
\* loop-backs to summarizer and is handed to human_review at retry count 3.
C10_ThreeLoopBacks ==
    \A e \in Execs :
        HandedOverAllFailed(e) =>
            /\ exec[e].loops = 3
            /\ exec[e].st.retry_count = 3
            /\ ~exec[e].st.critique_passed

\* C10 (amended): critique raises retry_count before the route is taken, so
\* the job is sent back to summarizer after the first two failed critiques
\* (retry_count 1 and 2: two loop-backs) and handed to human_review, with
\* critique_passed still false, after the third (retry_count 3); no run goes
\* from critique to summarizer with retry_count >= 3.
C10_CritiqueLoop ==
    \A e \in Execs :
        /\ HandedOverAllFailed(e) =>
              /\ exec[e].loops = 2
              /\ exec[e].st.retry_count = 3
              /\ ~exec[e].st.critique_passed
        /\ (Fresh(e) /\ exec[e].allfail /\ exec[e].pc = "running"
                /\ exec[e].node = "summarizer" /\ exec[e].loops > 0)
              => exec[e].st.retry_count = exec[e].loops
        /\ (exec[e].pc = "running" /\ exec[e].node = "summarizer"
                /\ exec[e].st.status = "critique_complete")
              => exec[e].st.retry_count < 3

C10_Witness ==
    \E e \in Execs :
        /\ HandedOverAllFailed(e)
        /\ exec[e].pc = "done"
        /\ exec[e].ret = "interrupted"
        /\ exec[e].st.retry_count = 3

\* What a router reads from a state in which keys may be missing.
Has(state, key) == key \in DOMAIN state
StatusFailed(state) == Has(state, "status") /\ state["status"] = "failed"
CritiquePassed(state) == Has(state, "critique_passed") /\ state["critique_passed"]
HumanApproved(state) == Has(state, "human_approved") /\ state["human_approved"]
RetryCountOf(state) == IF Has(state, "retry_count") THEN state["retry_count"] ELSE 0

\* C11: for every state route_after_critique returns end if status = failed;
\* otherwise human_review if critique_passed is true; otherwise summarizer if
\* retry_count < 3; otherwise human_review (a missing critique_passed counts
\* as false, a missing retry_count as 0).
C11_RouteAfterCritique ==
    LET s == route_in
        r == route_out.critique
    IN r # None =>
          /\ r \in {"end", "human_review", "summarizer"}
          /\ (r = "end") <=> StatusFailed(s)
          /\ (r = "summarizer") <=>
                (~StatusFailed(s) /\ ~CritiquePassed(s) /\ RetryCountOf(s) < 3)
          /\ (r = "human_review") <=>
                (~StatusFailed(s) /\ (CritiquePassed(s) \/ RetryCountOf(s) >= 3))

\* A failed state whose critique_passed is true and whose retry_count is
\* missing goes to end.
C11_Witness ==
    /\ route_out.critique = "end"
    /\ CritiquePassed(route_in)
    /\ ~Has(route_in, "retry_count")

\* C12: for every state route_after_human_review returns save if
\* human_approved is true; otherwise summarizer if retry_count < 5; otherwise
\* end (a missing human_approved counts as false, a missing retry_count as 0).
C12_RouteAfterHumanReview ==
    LET s == route_in
        r == route_out.human_review
    IN r # None =>
          /\ r \in {"save", "summarizer", "end"}
          /\ (r = "save") <=> HumanApproved(s)
          /\ (r = "summarizer") <=> (~HumanApproved(s) /\ RetryCountOf(s) < 5)
          /\ (r = "end") <=> (~HumanApproved(s) /\ RetryCountOf(s) >= 5)

C12_Witness ==
    /\ route_out.human_review = "end"
    /\ ~Has(route_in, "human_approved")
    /\ RetryCountOf(route_in) = 5

\* C13: whenever the critique call fails (classified error, exhausted
\* retries), critique_node returns critique_passed = true and status =
\* critique_complete and leaves retry_count unchanged, and the job goes on
\* to human_review, never to end or back to summarizer.
C13_CritiqueDegradation ==
    [][\A e \in Execs :
          (Running(e, "critique") /\ exec'[e] # exec[e] /\ ~exec'[e].call_ok)
          => /\ exec'[e].st.critique_passed
             /\ exec'[e].st.status = "critique_complete"
             /\ exec'[e].st.retry_count = exec[e].st.retry_count
             /\ exec'[e].st.error_message = exec[e].st.error_message
             /\ exec'[e].pc = "running"
             /\ exec'[e].node = "human_review"
             /\ ckpt'.next = "human_review"]_vars

\* The critique call failed in a job whose earlier critique had sent it
\* back to summarizer once.
C13_Witness ==
    \E e \in Execs :
        /\ exec[e].pc = "running"
        /\ exec[e].node = "human_review"
        /\ ~exec[e].call_ok
        /\ exec[e].st.critique = "skipped"
        /\ exec[e].st.retry_count = 1

\* C14: in every reachable state of a job, status is a member of the status
\* enum declared for the workflow state; no stage writes a status outside it.
C14_StatusInEnum ==
    /\ ckpt.exists => ckpt.values.status \in StatusEnum
    /\ \A e \in Execs : exec[e].pc = "running" => exec[e].st.status \in StatusEnum

\* C15: retry_count never decreases over the life of a job, across stage
\* executions, loop-backs and calls of process_meeting and
\* resume_after_review on one meeting id.
C15_RetryCountMonotonic ==
    [][(ckpt.exists /\ ckpt'.exists)
          => ckpt'.values.retry_count >= ckpt.values.retry_count]_vars

\* C16: every job that reaches end without completing has status = failed
\* and a non-null error_message in its final state, the job ended by a human
\* rejection at the retry ceiling included.
C16_EndedJobsAreFailedWithMessage ==
    (ckpt.exists /\ ckpt.next = "end" /\ ckpt.values.status # "completed")
        => /\ ckpt.values.status = "failed"
           /\ ckpt.values.error_message # None

\* C17: process_meeting on a meeting id whose checkpoint exists and is not
\* at end fails, executes no stage and leaves the checkpoint (state and
\* pending interrupt) unchanged.
C17_StartOnLiveJobFails ==
    [][\A e \in Execs :
          (exec[e].pc = "idle" /\ exec'[e].origin = "start"
              /\ ckpt.exists /\ ckpt.next # "end")
          => /\ ckpt' = ckpt
             /\ exec'[e].pc = "done"
             /\ exec'[e].ret = "error"]_vars

\* C18: for every outcome (success, classified error, unclassified
\* exception) of the speech-to-text and LLM calls made inside the stages,
\* process_meeting and resume_after_review return a workflow state and raise
\* no exception: a failed call either ends the job with status = failed or
\* lets it go on, and every call on an existing thread returns a state.
C18_NoExceptionEscapes ==
    \A e \in Execs :
        /\ (exec[e].pc = "done" /\ exec[e].loaded # "absent")
              => /\ exec[e].ret \in {"state", "interrupted"}
                 /\ exec[e].st.status # None
        /\ (exec[e].pc # "idle" /\ ~exec[e].call_ok)
              => /\ exec[e].ret # "error"
                 /\ exec[e].st.error_message # None \/ exec[e].st.critique = "skipped"

\* process_meeting has returned the state of a job whose speech-to-text
\* call failed.
C18_Witness ==
    \E e \in Execs :
        /\ exec[e].origin = "start"
        /\ exec[e].pc = "done"
        /\ exec[e].ret = "state"
        /\ ~exec[e].call_ok
        /\ exec[e].st.status = "failed"
        /\ exec[e].st.error_message = "stt failed"

\* C19: once the checkpointed status of a job has been set to cancelled
\* between two stages, the engine invokes no further stage of that job: a
\* running execution only terminates, with its state and the checkpoint as
\* they are, and a resume of the cancelled job runs no stage.
C19_CancelledJobStops ==
    [][\A e \in Execs :
          (ckpt.exists /\ ckpt.values.status = "cancelled")
          => /\ ckpt' = ckpt
             /\ exec'[e].pc = "running" => exec'[e] = exec[e]]_vars

\* C20: for a classified error (a PipelineError), should_retry(error, config,
\* attempt) returns false exactly when attempt >= config.max_retries, or the
\* error's recoverable flag is false, or its severity is critical, and true
\* for every other classified error and attempt.
C20_ShouldRetry ==
    LET i == retry_in
        r == retry_out.should_retry
    IN (r.ran /\ i.err.pipeline) =>
          ((r.value = FALSE) <=>
              (i.attempt >= i.M \/ ~i.err.recoverable \/ i.err.severity = "critical"))

\* A recoverable error of critical severity below the attempt limit, and
\* should_retry has refused it.
C20_Witness ==
    /\ retry_out.should_retry.ran
    /\ ~retry_out.should_retry.value
    /\ retry_in.err.pipeline
    /\ retry_in.err.recoverable
    /\ retry_in.err.severity = "critical"
    /\ retry_in.attempt < retry_in.M

\* C21: an exception that is not a PipelineError, raised by the function
\* under retry_async, is treated as a recoverable error: it is retried while
\* attempt < max_retries, so a function raising it on its first n calls is
\* called min(max_retries, n) + 1 times.
C21_UnclassifiedIsRetried ==
    LET i == retry_in
        r == retry_out.async
    IN (r.ran /\ ~i.err.pipeline) =>
          /\ r.calls = Min(i.M, i.n) + 1
          /\ i.n <= i.M => r.ok

\* The delay hint of an error, in milliseconds; 0 when there is none.
HintMs(error) == IF error.pipeline THEN error.retry_delay * 1000 ELSE 0
BackoffMs(config, attempt) ==
    Min(config.max_delay * 1000,
        config.initial_delay * Pow(config.exponential_base, attempt) * 1000)

\* C22 (as stated): with jitter disabled calculate_delay returns the error's
\* suggested retry_delay when that is > 0, and otherwise min(max_delay,
\* initial_delay * exponential_base ^ attempt).
C22_DelayIsHintOrBackoff ==
    LET i == retry_in IN
    (retry_out.ran /\ ~i.config.jitter) =>
        retry_out.delay = IF HintMs(i.error) > 0 THEN HintMs(i.error)
                          ELSE BackoffMs(i.config, i.attempt)

\* C22 (amended): with jitter disabled calculate_delay returns
\* min(max_delay, retry_delay) when the error suggests a retry_delay > 0,
\* and otherwise min(max_delay, initial_delay * exponential_base ^ attempt).
C22_DelayIsCappedHintOrBackoff ==
    LET i == retry_in IN
    (retry_out.ran /\ ~i.config.jitter) =>
        retry_out.delay = IF HintMs(i.error) > 0
                          THEN Min(i.config.max_delay * 1000, HintMs(i.error))
                          ELSE BackoffMs(i.config, i.attempt)

\* A hint of 60 s under a config whose max_delay is 30 s.
C22_Witness ==
    /\ retry_out.ran
    /\ ~retry_in.config.jitter
    /\ retry_in.error.retry_delay > retry_in.config.max_delay
    /\ retry_out.delay = retry_in.config.max_delay * 1000

\* C23: for each shipped retry config with jitter disabled and the same
\* error, calculate_delay(a + 1, ...) >= calculate_delay(a, ...), and the
\* delay never exceeds max_delay.
C23_BackoffMonotone ==
    (retry_out.ran /\ ~retry_in.config.jitter) =>
        /\ retry_out.next_delay >= retry_out.delay
        /\ retry_out.delay <= retry_in.config.max_delay * 1000
        /\ retry_out.next_delay <= retry_in.config.max_delay * 1000

\* A backoff that grows from one attempt to the next and reaches max_delay.
C23_Witness ==
    /\ retry_out.ran
    /\ ~retry_in.config.jitter
    /\ retry_in.error.retry_delay = 0
    /\ retry_out.delay < retry_out.next_delay
    /\ retry_out.next_delay = retry_in.config.max_delay * 1000

UpdatedOr(update, draft) == IF update # None THEN update ELSE draft

\* C25: an approval through resume_after_review without updated_* values
\* leaves final_summary = draft_summary, final_key_points = key_points,
\* final_decisions = decisions and final_action_items = action_items, none
\* of them null; a supplied updated_* value replaces only its own field.
C25_ApprovalKeepsDraft ==
    [][\A e \in Execs :
        (/\ Running(e, "human_review")
         /\ exec[e].delivered
         /\ exec[e].decision.action = "approve"
         /\ exec'[e].node = "save")
        => LET st == exec[e].st
               d == exec[e].decision
               fin == exec'[e].st
           IN /\ fin.final_summary = UpdatedOr(d.updated_summary, st.draft_summary)
              /\ fin.final_key_points = UpdatedOr(d.updated_key_points, st.key_points)
              /\ fin.final_decisions = UpdatedOr(d.updated_decisions, st.decisions)
              /\ fin.final_action_items = UpdatedOr(d.updated_actions, st.action_items)
              /\ fin.final_summary # None
              /\ fin.final_key_points # None
              /\ fin.final_decisions # None
              /\ fin.final_action_items # None]_vars

\* C27: get_review_status reports requires_review = true, with review data,
\* only while the job is suspended at human_review awaiting a decision; before
\* human_review is reached and after the job is approved and completed it
\* reports requires_review = false.
C27_ReviewOnlyWhileSuspended ==
    LET r == get_review_status(ckpt) IN
    /\ r.requires_review <=> ckpt.interrupt.pending
    /\ r.has_review_data <=> ckpt.interrupt.pending

\* human_review_node is handling, in this step, a decision with the action a.
Deciding(e, a) ==
    /\ Running(e, "human_review")
    /\ exec[e].delivered
    /\ exec[e].decision.action = a
    /\ exec'[e].pc # "idle"

\* C29: no completion without human approval.  The stored status becomes
\* completed only by save running on an approved state, a state becomes
\* approved and save becomes the next stage only by human_review handling a
\* resume whose action is exactly approve, and a decision with any other
\* action (reject or an unrecognised string) is handled as a rejection that
\* routes to summarizer or end, never to save.
C29_NoCompletionWithoutApproval ==
    [][/\ (ckpt.values.status # "completed" /\ ckpt'.values.status = "completed") =>
             /\ ckpt.next = "save"
             /\ ckpt.values.status = "approved"
             /\ ckpt.values.human_approved
             /\ \E e \in Execs : Running(e, "save")
       /\ (ckpt.values.status # "approved" /\ ckpt'.values.status = "approved") =>
             \E e \in Execs : Deciding(e, "approve")
       /\ (ckpt.next # "save" /\ ckpt'.next = "save") =>
             \E e \in Execs : Deciding(e, "approve")
       /\ \A e \in Execs : \A a \in ReviewActions \ {"approve"} :
             Deciding(e, a) =>
                /\ exec'[e].node \in {"summarizer", "end"}
                /\ exec'[e].st.status = "revision_requested"
                /\ ~exec'[e].st.human_approved
                /\ exec'[e].saves = exec[e].saves]_vars

\* A job that was sent back at least once and then approved is completed.
C29_Witness ==
    /\ ckpt.values.status = "completed"
    /\ ckpt.next = "end"
    /\ ckpt.values.human_approved
    /\ ckpt.values.retry_count >= 1
    /\ \E e \in Execs : exec[e].decided = "approve" /\ exec[e].saves = 1

\* What a stage does when its call fails n times with a retried error: n + 1
\* calls and the stage's success status while n is at most max_retries, and
\* max_retries + 1 calls and status failed otherwise.
RetriedThenGivesUp(r, config, done) ==
    IF retry_in.n <= config.max_retries
    THEN r.calls = retry_in.n + 1 /\ r.status = done
    ELSE r.calls = config.max_retries + 1 /\ r.calls = 4 /\ r.status = "failed"

C28_BoundedLoopingAndTermination ==
    /\ [](summarizer_runs <= 5)
    /\ (ckpt.exists ~> ckpt.next = "end")

\* The job has ended after five runs of summarizer.
C28_Witness ==
    /\ summarizer_runs = 5
    /\ ckpt.next = "end"
    /\ exec["e1"].pc = "done"

\* C30: under any interleaving of concurrent get_checkpointer calls,
\* create_checkpointer is invoked at most once and every caller receives the
\* same checkpointer instance.
C30_CheckpointerIsSingleton ==
    /\ checkpointer.created <= 1
    /\ \A g, h \in Getters :
          (getter[g].pc = "returned" /\ getter[h].pc = "returned")
              => getter[g].got = getter[h].got

=============================================================================
